---- MODULE Spec2Model ----
(***************************************************************************)
(* Model of src/src/device.c of the Synaptics touch driver: the passive-   *)
(* level interrupt service routine OnInterruptIsr and the PnP / power      *)
(* callbacks OnD0Entry, OnD0Exit, OnPrepareHardware and OnReleaseHardware. *)
(*                                                                         *)
(* SpecIsr         one OnInterruptIsr invocation at a time, stepping       *)
(*                 statement by statement, racing with the insertion of    *)
(*                 HID read requests and with DiagnosticMode flips.        *)
(* SpecConcurrent  the same steps with two invocations in flight on the    *)
(*                 same PingPongQueue.                                     *)
(* SpecLifecycle   the PnP and power callbacks, one call at a time in the  *)
(*                 order the framework makes them, each with every outcome *)
(*                 of the routines it calls.                               *)
(***************************************************************************)
EXTENDS Integers, Sequences, FiniteSets, TLC

(* ------------------------------ bounds --------------------------------- *)

\* most reports one TchServiceInterrupts call hands back
MaxReports == 2

\* read requests HIDClass sends down during one run
MaxRequests == 3

\* the same two, while two invocations of OnInterruptIsr are in flight at once
MaxRacingReports == 1
MaxRacingRequests == 2

\* longest translated resource list handed to OnPrepareHardware
MaxResources == 2

\* OnInterruptIsr invocations that may be in flight at once
Invocations == {1, 2}

(* ----------------------------- constants ------------------------------- *)

\* sizeof(HID_INPUT_REPORT), in abstract units
SizeofHidInputReport == 2

\* capacities of the output buffers HIDClass supplies: one too short, one that fits
BufferLengths == {SizeofHidInputReport - 1, SizeofHidInputReport}

NULL == 0

\* a buffer nobody wrote a report to; a read past the end of the report array
NoReport == NULL
Garbage == NoReport - 1

STATUS_SUCCESS == "STATUS_SUCCESS"
STATUS_UNSUCCESSFUL == "STATUS_UNSUCCESSFUL"
STATUS_NO_MORE_ENTRIES == "STATUS_NO_MORE_ENTRIES"
STATUS_BUFFER_TOO_SMALL == "STATUS_BUFFER_TOO_SMALL"
STATUS_INSUFFICIENT_RESOURCES == "STATUS_INSUFFICIENT_RESOURCES"

NT_SUCCESS(status) == status = STATUS_SUCCESS

RequestIds == 1 .. MaxRequests

RECURSIVE SeqsUpTo(_, _)
\* every sequence over S of length at most n
SeqsUpTo(S, n) ==
    IF n = 0 THEN {<<>>}
    ELSE LET shorter == SeqsUpTo(S, n - 1)
         IN  shorter \cup {Append(s, x) : s \in {t \in shorter : Len(t) = n - 1}, x \in S}

\* what TchServiceInterrupts can hand back on success: n reports, each told
\* apart from the others of its array by its payload
ReportSequences == {[k \in 1 .. n |-> k] : n \in 0 .. MaxReports}

Min(a, b) == IF a < b THEN a ELSE b
Max(a, b) == IF a > b THEN a ELSE b

(* ------------------------------- state --------------------------------- *)

VARIABLES
    devContext,     \* DEVICE_EXTENSION fields device.c reads and writes
    PingPongQueue,  \* devContext->PingPongQueue: request ids, oldest first
    requests,       \* every WDFREQUEST: where it is and how it was completed
    isr,            \* per invocation of OnInterruptIsr: position and locals
    lifecycle,      \* where the framework has taken the device
    lastCallback,   \* the PnP / power callback that ran last: name, argument, status
    calls,          \* the routines that callback called, in order, with their results
    idleIrp,        \* the request held for the idle / wake handshake
    hw              \* what the called routines hold: the transport and the touch context

isrVars == <<PingPongQueue, requests, isr>>
pnpVars == <<lifecycle, lastCallback, calls, idleIrp, hw>>
vars == <<devContext, PingPongQueue, requests, isr, lifecycle, lastCallback, calls, idleIrp, hw>>

FreshRequest ==
    [state |-> "free", OutputBufferLength |-> 0, Status |-> "none",
     Information |-> 0, Buffer |-> NoReport, completions |-> 0, handedTo |-> {}]

IsrLocals ==
    [pc |-> "idle", status |-> STATUS_SUCCESS, request |-> NULL,
     hidReportsFromDriver |-> <<>>, reportsLen |-> 0, i |-> 0, ret |-> "none",
     \* history of the invocation, read by the properties only
     diagnostic |-> FALSE, serviced |-> FALSE, serviceStatus |-> "none",
     queueAtStart |-> <<>>, queueAtEnd |-> <<>>, raced |-> FALSE, log |-> <<>>,
     servicedAfter |-> "none", wakePending |-> FALSE, lastDropped |-> NULL, late |-> {}]

InitDevContext ==
    [DiagnosticMode |-> FALSE, ServiceInterruptsAfterD0Entry |-> FALSE,
     InputMode |-> 0, TouchContext |-> NULL,
     I2CContext |-> [I2cResHubId |-> [LowPart |-> 0, HighPart |-> 0]]]

Init ==
    /\ devContext = InitDevContext
    /\ PingPongQueue = <<>>
    /\ requests = [r \in RequestIds |-> FreshRequest]
    /\ isr = [p \in Invocations |-> IsrLocals]
    /\ lifecycle = "Unbound"
    /\ lastCallback = [name |-> "none", resources |-> <<>>, status |-> "none"]
    /\ calls = <<>>
    /\ idleIrp = "none"
    /\ hw = [transport |-> "absent", touch |-> "absent"]

(* --------------------------- interrupt path ---------------------------- *)

InPass(p) == isr[p].pc \in {"loop", "complete"}

\* another party touched PingPongQueue: every pass in flight but p's own saw a race
MarkRaced(p) ==
    [q \in Invocations |->
        IF q # p /\ InPass(q) THEN [isr[q] EXCEPT !.raced = TRUE] ELSE isr[q]]

\* request r arrives in PingPongQueue: every pass in flight saw a race, and a pass
\* that has already dropped a report notes r as a late arrival
NoteArrival(r) ==
    [q \in Invocations |->
        IF InPass(q)
        THEN [isr[q] EXCEPT !.raced = TRUE,
                            !.late = IF isr[q].lastDropped = NULL THEN @
                                     ELSE @ \cup {[request |-> r,
                                                   after |-> isr[q].lastDropped]}]
        ELSE isr[q]]

\* HIDClass sends a read request down; it is parked in PingPongQueue
InsertRequest ==
    \E len \in BufferLengths :
        /\ \E r \in RequestIds : requests[r].state = "free"
        /\ LET r == CHOOSE r \in RequestIds :
                        /\ requests[r].state = "free"
                        /\ \A s \in RequestIds : requests[s].state = "free" => r <= s
           IN  /\ requests' = [requests EXCEPT ![r] =
                                   [FreshRequest EXCEPT !.state = "queued",
                                                        !.OutputBufferLength = len]]
               /\ PingPongQueue' = Append(PingPongQueue, r)
               /\ isr' = NoteArrival(r)
        /\ UNCHANGED <<devContext, pnpVars>>

\* the diagnostic application flips DiagnosticMode
SetDiagnosticMode ==
    /\ devContext' = [devContext EXCEPT !.DiagnosticMode = ~devContext.DiagnosticMode]
    /\ UNCHANGED <<isrVars, pnpVars>>

\* a return value that follows the last status instead
IsrReturnValueFromStatus(status) == NT_SUCCESS(status)

\* lines 180-181: the value handed back to the framework
IsrReturnValue(status) == TRUE

\* the diagnostic gate left out
NeverInDiagnosticMode(ctx) == FALSE

\* lines 80-83: leave servicing to the diagnostic application?
InDiagnosticMode(ctx) == ctx.DiagnosticMode # FALSE

\* lines 71-83, 180-181: entry, locals initialised, diagnostic gate
IsrEntry(p) ==
    /\ isr[p].pc \in {"idle", "returned"}
    /\ isr' = [isr EXCEPT ![p] =
                  [IsrLocals EXCEPT
                      !.pc = IF InDiagnosticMode(devContext) THEN "returned" ELSE "service",
                      !.ret = IF InDiagnosticMode(devContext)
                              THEN IsrReturnValue(STATUS_SUCCESS) ELSE "none",
                      !.diagnostic = InDiagnosticMode(devContext),
                      !.queueAtStart = PingPongQueue,
                      !.queueAtEnd = PingPongQueue]]
    /\ UNCHANGED <<devContext, PingPongQueue, requests, pnpVars>>

\* the failure check left out
ServiceFailedNever(status) == FALSE

\* lines 103-109: is the report buffer unusable?
ServiceFailed(status) == ~NT_SUCCESS(status)

\* lines 94-111, 180-181: TchServiceInterrupts, then the failure check
IsrService(p) ==
    /\ isr[p].pc = "service"
    /\ \E status \in {STATUS_SUCCESS, STATUS_UNSUCCESSFUL},
          reports \in ReportSequences, written \in 0 .. MaxReports :
          \* on success the callee filled both out-parameters; on failure the
          \* pointer is not filled and the length is whatever the callee left
          /\ status = STATUS_SUCCESS => written = Len(reports)
          /\ status # STATUS_SUCCESS => reports = <<>>
          /\ isr' = [isr EXCEPT ![p] =
                        [@ EXCEPT !.status = status,
                                  !.hidReportsFromDriver = reports,
                                  !.reportsLen = written,
                                  !.pc = IF ServiceFailed(status) THEN "returned" ELSE "loop",
                                  !.ret = IF ServiceFailed(status)
                                          THEN IsrReturnValue(status) ELSE "none",
                                  !.serviced = TRUE,
                                  !.serviceStatus = status,
                                  !.servicedAfter = lastCallback.name,
                                  !.wakePending = devContext.ServiceInterruptsAfterD0Entry,
                                  !.queueAtStart = PingPongQueue,
                                  !.queueAtEnd = PingPongQueue,
                                  !.raced = FALSE]]
    /\ UNCHANGED <<devContext, PingPongQueue, requests, pnpVars>>

\* a dequeue that takes the newest request
RetrieveNewestRequest(queue) ==
    IF queue = <<>>
    THEN [status |-> STATUS_NO_MORE_ENTRIES, request |-> NULL, queue |-> queue]
    ELSE [status |-> STATUS_SUCCESS, request |-> queue[Len(queue)],
          queue |-> SubSeq(queue, 1, Len(queue) - 1)]

\* a dequeue that reads the oldest request and leaves it in the queue
PeekNextRequest(queue) ==
    IF queue = <<>>
    THEN [status |-> STATUS_NO_MORE_ENTRIES, request |-> NULL, queue |-> queue]
    ELSE [status |-> STATUS_SUCCESS, request |-> Head(queue), queue |-> queue]

\* lines 118-120: WdfIoQueueRetrieveNextRequest, one atomic dequeue of the oldest request
RetrieveNextRequest(queue) ==
    IF queue = <<>>
    THEN [status |-> STATUS_NO_MORE_ENTRIES, request |-> NULL, queue |-> queue]
    ELSE [status |-> STATUS_SUCCESS, request |-> Head(queue), queue |-> Tail(queue)]

\* a loop that offers a dropped report again
AfterDropRetry(i) == i

\* lines 113, 130: continue goes to the increment of the for loop
AfterDrop(i) == i + 1

\* lines 113-131, 180-181: loop test, dequeue, and the drop of a report nobody waits for
IsrLoop(p) ==
    /\ isr[p].pc = "loop"
    /\ IF isr[p].i < isr[p].reportsLen
       THEN LET got == RetrieveNextRequest(PingPongQueue)
            IN  IF ~NT_SUCCESS(got.status)
                THEN /\ isr' = [isr EXCEPT ![p] =
                                   [@ EXCEPT !.status = got.status,
                                             !.i = AfterDrop(@),
                                             !.lastDropped = isr[p].i + 1,
                                             !.log = Append(@, [request |-> NULL,
                                                                status |-> got.status,
                                                                report |-> NoReport])]]
                     /\ UNCHANGED <<PingPongQueue, requests>>
                ELSE /\ isr' = [MarkRaced(p) EXCEPT ![p] =
                                   [@ EXCEPT !.status = got.status,
                                             !.request = got.request,
                                             !.pc = "complete"]]
                     /\ PingPongQueue' = got.queue
                     /\ requests' = [requests EXCEPT ![got.request] =
                                        [@ EXCEPT !.state = "popped",
                                                  !.handedTo = @ \cup {p}]]
       ELSE /\ isr' = [isr EXCEPT ![p] =
                          [@ EXCEPT !.pc = "returned",
                                    !.queueAtEnd = PingPongQueue,
                                    !.ret = IsrReturnValue(isr[p].status)]]
            /\ UNCHANGED <<PingPongQueue, requests>>
    /\ UNCHANGED <<devContext, pnpVars>>

\* lines 136-140: WdfRequestRetrieveOutputBuffer with a minimum required length
RetrieveOutputBuffer(req, minimumRequiredLength) ==
    IF req.OutputBufferLength < minimumRequiredLength
    THEN [status |-> STATUS_BUFFER_TOO_SMALL, length |-> 0]
    ELSE [status |-> STATUS_SUCCESS, length |-> req.OutputBufferLength]

\* always the first element of the report array
ReportAtFirst(reports, i) ==
    IF 1 \in DOMAIN reports THEN reports[1] ELSE Garbage

\* lines 168-171: i-th element of the report array; past its end the read is of memory the
\* driver does not own
ReportAt(reports, i) ==
    IF i + 1 \in DOMAIN reports THEN reports[i + 1] ELSE Garbage

\* lines 136-175: validate the output buffer, copy the report, set the byte count
FillRequest(req, report) ==
    LET got == RetrieveOutputBuffer(req, SizeofHidInputReport)
    IN  IF ~NT_SUCCESS(got.status)
        THEN [req EXCEPT !.Status = got.status]
        ELSE IF got.length < SizeofHidInputReport
             THEN [req EXCEPT !.Status = STATUS_BUFFER_TOO_SMALL]
             ELSE [req EXCEPT !.Status = got.status,
                              !.Buffer = report,
                              !.Information = SizeofHidInputReport]

\* line 177: WdfRequestComplete hands the request back to HIDClass
CompleteRequest(req) ==
    [req EXCEPT !.state = "completed", !.completions = @ + 1]

\* a loop that gives up after a failed completion
AfterCompletionStopOnError(status) == IF NT_SUCCESS(status) THEN "loop" ELSE "returned"

\* lines 113, 178: after a completion the for loop goes on with the next report
AfterCompletion(status) == "loop"

\* lines 133-178: validate, copy, complete, next iteration
IsrComplete(p) ==
    /\ isr[p].pc = "complete"
    /\ LET r      == isr[p].request
           report == ReportAt(isr[p].hidReportsFromDriver, isr[p].i)
           filled == FillRequest(requests[r], report)
       IN  /\ requests' = [requests EXCEPT ![r] = CompleteRequest(filled)]
           /\ isr' = [isr EXCEPT ![p] =
                         [@ EXCEPT !.status = filled.Status,
                                   !.i = @ + 1,
                                   !.pc = AfterCompletion(filled.Status),
                                   !.log = Append(@, [request |-> r,
                                                      status |-> filled.Status,
                                                      report |-> report])]]
    /\ UNCHANGED <<devContext, PingPongQueue, pnpVars>>

\* lines 60-182: OnInterruptIsr, one step of invocation p
OnInterruptIsr(p) ==
    \/ IsrEntry(p)
    \/ IsrService(p)
    \/ IsrLoop(p)
    \/ IsrComplete(p)

NextIsr ==
    \/ InsertRequest
    \/ SetDiagnosticMode
    \/ OnInterruptIsr(1)

SpecIsr == Init /\ [][NextIsr]_vars

Inserted == Cardinality({r \in RequestIds : requests[r].state # "free"})

NextConcurrent ==
    \/ InsertRequest /\ Inserted < MaxRacingRequests
    \/ \E p \in Invocations :
          \/ IsrEntry(p)
          \/ IsrService(p) /\ isr'[p].reportsLen <= MaxRacingReports
          \/ IsrLoop(p)
          \/ IsrComplete(p)

SpecConcurrent == Init /\ [][NextConcurrent]_vars

(* ------------------- properties of the interrupt path ------------------ *)

Returned(p) == isr[p].pc = "returned"

\* p's last invocation got reports from TchServiceInterrupts and ran to its end
ServicedOk(p) == Returned(p) /\ isr[p].serviced /\ NT_SUCCESS(isr[p].serviceStatus)

ReportsOf(p) == isr[p].reportsLen
PendingAtStart(p) == Len(isr[p].queueAtStart)

\* request r holds a report: success, one report's bytes, that payload
HoldsReport(r, payload) ==
    /\ requests[r].state = "completed"
    /\ NT_SUCCESS(requests[r].Status)
    /\ requests[r].Information = SizeofHidInputReport
    /\ requests[r].Buffer = payload

\* request r was turned down: buffer too small, no bytes
TurnedDown(r) ==
    /\ requests[r].state = "completed"
    /\ requests[r].Status = STATUS_BUFFER_TOO_SMALL
    /\ requests[r].Information = 0
    /\ requests[r].Buffer = NoReport

CompletedWithData(p) ==
    {k \in 1 .. Len(isr[p].log) :
        /\ isr[p].log[k].request # NULL
        /\ HoldsReport(isr[p].log[k].request, isr[p].log[k].report)}

Dropped(p) == {k \in 1 .. Len(isr[p].log) : isr[p].log[k].request = NULL}

\* C1 as stated: a pass with N reports and M requests pending at its start
\* completes exactly min(N, M) requests with report data, leaves exactly
\* max(0, M - N) pending and drops exactly max(0, N - M) reports.
C1_AsStated ==
    \A p \in Invocations :
        ServicedOk(p) =>
            /\ Cardinality(CompletedWithData(p)) = Min(ReportsOf(p), PendingAtStart(p))
            /\ Len(isr[p].queueAtEnd) = Max(0, PendingAtStart(p) - ReportsOf(p))
            /\ Cardinality(Dropped(p)) = Max(0, ReportsOf(p) - PendingAtStart(p))

\* C1 amended: in a pass that no insertion races with, N reports and M requests
\* pending at its start, the k-th report (k <= min(N, M)) is matched to the
\* k-th oldest request, which is completed once: with that report's bytes and
\* success if its buffer holds a report, with "buffer too small" and no bytes
\* otherwise (the report is then lost); the last max(0, N - M) reports are
\* dropped for want of a request and the last max(0, M - N) requests stay
\* queued, in order.
C1_PassMatching ==
    \A p \in Invocations :
        (ServicedOk(p) /\ ~isr[p].raced) =>
            LET n == ReportsOf(p)
                m == PendingAtStart(p)
                both == Min(n, m)
            IN  /\ Len(isr[p].log) = n
                /\ \A k \in 1 .. both :
                      LET r == isr[p].queueAtStart[k]
                      IN  /\ isr[p].log[k].request = r
                          /\ requests[r].completions = 1
                          /\ IF requests[r].OutputBufferLength >= SizeofHidInputReport
                             THEN HoldsReport(r, isr[p].hidReportsFromDriver[k])
                             ELSE TurnedDown(r)
                /\ \A k \in both + 1 .. n : isr[p].log[k].request = NULL
                /\ isr[p].queueAtEnd = SubSeq(isr[p].queueAtStart, both + 1, m)

\* reports [A, B] met queue [R1]: R1 holds A, B was dropped, the queue is empty
C1_Witness ==
    \E p \in Invocations :
        /\ ServicedOk(p) /\ ~isr[p].raced
        /\ ReportsOf(p) = 2 /\ PendingAtStart(p) = 1
        /\ HoldsReport(isr[p].queueAtStart[1], isr[p].hidReportsFromDriver[1])
        /\ isr[p].log[2].request = NULL
        /\ isr[p].queueAtEnd = <<>>

\* C2: within one pass reports go out in emission order to requests in arrival
\* order (request ids grow with arrival): the request matched at iteration k
\* gets report k and nothing else, a later request is never matched before an
\* earlier one, and while nothing races with the pass the request matched at
\* iteration k is the k-th oldest that was pending at its start.
C2_FifoOrder ==
    \A p \in Invocations :
        LET log == isr[p].log
        IN  /\ \A k \in 1 .. Len(log) :
                  log[k].request # NULL =>
                      /\ log[k].report = isr[p].hidReportsFromDriver[k]
                      /\ requests[log[k].request].Buffer \in {NoReport, log[k].report}
            /\ \A j, k \in 1 .. Len(log) :
                  (j < k /\ log[j].request # NULL /\ log[k].request # NULL)
                      => log[j].request < log[k].request
            /\ ~isr[p].raced =>
                  \A k \in 1 .. Len(log) :
                      k <= PendingAtStart(p) => log[k].request = isr[p].queueAtStart[k]

\* two reports went to the two oldest requests of a pass nothing raced with
C2_Witness ==
    \E p \in Invocations :
        /\ ServicedOk(p) /\ ~isr[p].raced
        /\ ReportsOf(p) >= 2 /\ PendingAtStart(p) >= 2
        /\ HoldsReport(isr[p].queueAtStart[1], isr[p].hidReportsFromDriver[1])
        /\ HoldsReport(isr[p].queueAtStart[2], isr[p].hidReportsFromDriver[2])

InQueue(r) == \E k \in 1 .. Len(PingPongQueue) : PingPongQueue[k] = r

\* C3: under every interleaving of invocations and insertions a request is
\* completed at most once, is handed to at most one invocation, is out of the
\* queue for good once dequeued, and while dequeued and not yet completed is
\* held by the invocation that dequeued it, which has not returned.
C3_CompletedOnce ==
    /\ \A r \in RequestIds :
          /\ requests[r].completions <= 1
          /\ Cardinality(requests[r].handedTo) <= 1
          /\ requests[r].state = "completed" => requests[r].completions = 1
          /\ requests[r].state = "popped" =>
                \E p \in Invocations :
                    /\ requests[r].handedTo = {p}
                    /\ isr[p].pc = "complete"
                    /\ isr[p].request = r
          /\ InQueue(r) <=> requests[r].state = "queued"
          /\ InQueue(r) => requests[r].completions = 0 /\ requests[r].handedTo = {}
    /\ \A j, k \in 1 .. Len(PingPongQueue) :
          j # k => PingPongQueue[j] # PingPongQueue[k]

\* two invocations each hold a dequeued request at the same time
C3_Witness ==
    /\ isr[1].pc = "complete" /\ isr[2].pc = "complete"
    /\ isr[1].request # isr[2].request
    /\ requests[isr[1].request].state = "popped"
    /\ requests[isr[2].request].state = "popped"

\* C4: a pass whose TchServiceInterrupts call failed dequeues and completes no
\* request, reads no report and leaves the queue as it found it.
C4_FailedServiceTouchesNothing ==
    \A p \in Invocations :
        (isr[p].serviced /\ ~NT_SUCCESS(isr[p].serviceStatus)) =>
            /\ Returned(p)
            /\ isr[p].log = <<>>
            /\ isr[p].i = 0
            /\ isr[p].request = NULL
            /\ isr[p].queueAtEnd = isr[p].queueAtStart

\* a failed call that left a report count behind, with a request waiting
C4_Witness ==
    \E p \in Invocations :
        /\ Returned(p) /\ isr[p].serviced /\ ~NT_SUCCESS(isr[p].serviceStatus)
        /\ isr[p].reportsLen > 0
        /\ isr[p].queueAtEnd # <<>>

\* C5: a dequeued request whose buffer is shorter than a report is completed
\* with "buffer too small" and no bytes, and the pass goes on: every report
\* gets its turn, and each report after the short request is matched to the
\* next pending request, or dropped when none is left.
C5_ShortBufferDoesNotBlock ==
    /\ \A r \in RequestIds :
          (requests[r].state = "completed"
             /\ requests[r].OutputBufferLength < SizeofHidInputReport) => TurnedDown(r)
    /\ \A p \in Invocations :
          ServicedOk(p) =>
              /\ Len(isr[p].log) = ReportsOf(p)
              /\ \A j, k \in 1 .. Len(isr[p].log) :
                    (/\ j < k
                     /\ isr[p].log[j].status = STATUS_BUFFER_TOO_SMALL
                     /\ ~isr[p].raced)
                    => IF k <= PendingAtStart(p)
                       THEN /\ isr[p].log[k].request = isr[p].queueAtStart[k]
                            /\ requests[isr[p].queueAtStart[k]].state = "completed"
                       ELSE isr[p].log[k].request = NULL

\* a short request was turned down and the next report reached the next request
C5_Witness ==
    \E p \in Invocations :
        /\ ServicedOk(p) /\ ~isr[p].raced
        /\ Len(isr[p].log) >= 2
        /\ isr[p].log[1].request # NULL
        /\ TurnedDown(isr[p].log[1].request)
        /\ isr[p].log[2].request # NULL
        /\ HoldsReport(isr[p].log[2].request, isr[p].hidReportsFromDriver[2])

\* C6: an invocation that starts while DiagnosticMode is set returns TRUE at
\* once: TchServiceInterrupts is not called, no request is dequeued or
\* completed, and queue, requests and device context stay as they were.
C6_DiagnosticModeIsInert ==
    [][\A p \in Invocations :
          (/\ isr[p].pc \in {"idle", "returned"}
           /\ isr'[p].pc # "idle"
           /\ isr'[p] # isr[p]
           /\ devContext.DiagnosticMode # FALSE)
          => /\ isr'[p].pc = "returned"
             /\ isr'[p].ret = TRUE
             /\ ~isr'[p].serviced
             /\ isr'[p].log = <<>>
             /\ UNCHANGED <<devContext, PingPongQueue, requests>>]_vars

\* an invocation came and went in diagnostic mode while a request was waiting
C6_Witness ==
    \E p \in Invocations :
        /\ Returned(p) /\ isr[p].diagnostic /\ isr[p].ret = TRUE
        /\ ~isr[p].serviced
        /\ PingPongQueue # <<>>

\* C7: whatever path an invocation took, the value it returns is TRUE.
C7_AlwaysHandled ==
    \A p \in Invocations :
        /\ Returned(p) => isr[p].ret = TRUE
        /\ ~Returned(p) => isr[p].ret = "none"

\* an invocation returned after turning one request down and dropping a report
C7_Witness ==
    \E p \in Invocations :
        /\ Returned(p) /\ isr[p].ret = TRUE
        /\ \E j, k \in 1 .. Len(isr[p].log) :
              /\ isr[p].log[j].status = STATUS_BUFFER_TOO_SMALL
              /\ isr[p].log[k].request = NULL
(* ------------------------ PnP and power callbacks ---------------------- *)

CmResourceTypeConnection == "CmResourceTypeConnection"
CmResourceTypeInterrupt == "CmResourceTypeInterrupt"
CM_RESOURCE_CONNECTION_CLASS_SERIAL == "CM_RESOURCE_CONNECTION_CLASS_SERIAL"
CM_RESOURCE_CONNECTION_CLASS_GPIO == "CM_RESOURCE_CONNECTION_CLASS_GPIO"
CM_RESOURCE_CONNECTION_TYPE_SERIAL_I2C == "CM_RESOURCE_CONNECTION_TYPE_SERIAL_I2C"
CM_RESOURCE_CONNECTION_TYPE_SERIAL_UART == "CM_RESOURCE_CONNECTION_TYPE_SERIAL_UART"

\* CM_PARTIAL_RESOURCE_DESCRIPTOR, the fields the scan reads
Descriptor(type, class, connType, low, high) ==
    [Type |-> type, Class |-> class, ConnType |-> connType,
     IdLowPart |-> low, IdHighPart |-> high]

\* two I2C connections with different ids, and one descriptor failing each test
Descriptors ==
    { Descriptor(CmResourceTypeConnection, CM_RESOURCE_CONNECTION_CLASS_SERIAL,
                 CM_RESOURCE_CONNECTION_TYPE_SERIAL_I2C, 1, 2),
      Descriptor(CmResourceTypeConnection, CM_RESOURCE_CONNECTION_CLASS_SERIAL,
                 CM_RESOURCE_CONNECTION_TYPE_SERIAL_I2C, 3, 4),
      Descriptor(CmResourceTypeConnection, CM_RESOURCE_CONNECTION_CLASS_SERIAL,
                 CM_RESOURCE_CONNECTION_TYPE_SERIAL_UART, 5, 6),
      Descriptor(CmResourceTypeConnection, CM_RESOURCE_CONNECTION_CLASS_GPIO,
                 CM_RESOURCE_CONNECTION_TYPE_SERIAL_I2C, 7, 8),
      Descriptor(CmResourceTypeInterrupt, CM_RESOURCE_CONNECTION_CLASS_SERIAL,
                 CM_RESOURCE_CONNECTION_TYPE_SERIAL_I2C, 9, 10) }

\* FxResourcesTranslated
ResourceLists == SeqsUpTo(Descriptors, MaxResources)

\* statuses the called routines hand back
Outcomes == {STATUS_SUCCESS, STATUS_UNSUCCESSFUL, STATUS_INSUFFICIENT_RESOURCES}

\* the handle TchAllocateContext stores on success
TouchContextHandle == NULL + 1

\* one entry of the call record
Call(op, status) == [op |-> op, status |-> status]

\* what one call leaves behind in the transport and the touch context: a
\* routine that fails leaves things as they were
Effect(h, call) ==
    IF call.op = "SpbTargetDeinitialize" THEN [h EXCEPT !.transport = "absent"]
    ELSE IF ~NT_SUCCESS(call.status) THEN h
    ELSE IF call.op = "SpbTargetInitialize" THEN [h EXCEPT !.transport = "initialized"]
    ELSE IF call.op = "TchAllocateContext" THEN [h EXCEPT !.touch = "allocated"]
    ELSE IF call.op = "TchStartDevice" /\ h.touch # "absent" THEN [h EXCEPT !.touch = "started"]
    ELSE IF call.op = "TchStopDevice" /\ h.touch = "started" THEN [h EXCEPT !.touch = "allocated"]
    ELSE IF call.op = "TchFreeContext" THEN [h EXCEPT !.touch = "absent"]
    ELSE h

RECURSIVE Effects(_, _)
\* what a sequence of calls leaves behind
Effects(h, cs) == IF cs = <<>> THEN h ELSE Effects(Effect(h, Head(cs)), Tail(cs))

\* lines 333-335: the descriptor of the I2C connection?
IsI2cConnection(res) ==
    /\ res.Type = CmResourceTypeConnection
    /\ res.Class = CM_RESOURCE_CONNECTION_CLASS_SERIAL
    /\ res.ConnType = CM_RESOURCE_CONNECTION_TYPE_SERIAL_I2C

\* a scan that starts out successful
InitialPrepareStatusSuccess == STATUS_SUCCESS

\* line 321: the status the scan starts from
InitialPrepareStatus == STATUS_INSUFFICIENT_RESOURCES

RECURSIVE ScanResourcesFirstWins(_, _, _)
\* a scan that keeps the first I2C connection it finds
ScanResourcesFirstWins(list, i, found) ==
    IF i < Len(list)
    THEN LET res == list[i + 1]
         IN  ScanResourcesFirstWins(list, i + 1,
                 IF IsI2cConnection(res) /\ ~NT_SUCCESS(found.status)
                 THEN [status |-> STATUS_SUCCESS,
                       I2cResHubId |-> [LowPart |-> res.IdLowPart,
                                        HighPart |-> res.IdHighPart]]
                 ELSE found)
    ELSE found

RECURSIVE ScanResources(_, _, _)
\* lines 327-344: the for loop over the resource list, from index i on;
\* found is the status and the I2cResHubId so far
ScanResources(list, i, found) ==
    IF i < Len(list)
    THEN LET res == list[i + 1]
         IN  ScanResources(list, i + 1,
                 IF IsI2cConnection(res)
                 THEN [status |-> STATUS_SUCCESS,
                       I2cResHubId |-> [LowPart |-> res.IdLowPart,
                                        HighPart |-> res.IdHighPart]]
                 ELSE found)
    ELSE found

\* a binding that reports success whatever TchStartDevice hands back
PrepareHardwareIgnoreStart(ctx, resources, spb, alloc, reg, start) ==
    LET scan == ScanResources(resources, 0,
                    [status |-> InitialPrepareStatus,
                     I2cResHubId |-> ctx.I2CContext.I2cResHubId])
        scanned == [ctx EXCEPT !.I2CContext.I2cResHubId = scan.I2cResHubId]
        allocated == [scanned EXCEPT !.TouchContext = TouchContextHandle]
        c1 == <<Call("SpbTargetInitialize", spb)>>
        c2 == Append(c1, Call("TchAllocateContext", alloc))
        c3 == Append(c2, Call("TchRegistryGetControllerSettings", reg))
        c4 == Append(c3, Call("TchStartDevice", start))
    IN  IF ~NT_SUCCESS(scan.status)
        THEN [status |-> scan.status, calls |-> <<>>, ctx |-> scanned]
        ELSE IF ~NT_SUCCESS(spb)
        THEN [status |-> spb, calls |-> c1, ctx |-> scanned]
        ELSE IF ~NT_SUCCESS(alloc)
        THEN [status |-> alloc, calls |-> c2, ctx |-> scanned]
        ELSE IF ~NT_SUCCESS(reg)
        THEN [status |-> reg, calls |-> c3, ctx |-> allocated]
        ELSE [status |-> STATUS_SUCCESS, calls |-> c4, ctx |-> allocated]

\* a binding that deinitializes the transport itself when the allocation fails
PrepareHardwareUnwind(ctx, resources, spb, alloc, reg, start) ==
    LET scan == ScanResources(resources, 0,
                    [status |-> InitialPrepareStatus,
                     I2cResHubId |-> ctx.I2CContext.I2cResHubId])
        scanned == [ctx EXCEPT !.I2CContext.I2cResHubId = scan.I2cResHubId]
        allocated == [scanned EXCEPT !.TouchContext = TouchContextHandle]
        c1 == <<Call("SpbTargetInitialize", spb)>>
        c2 == Append(c1, Call("TchAllocateContext", alloc))
        c3 == Append(c2, Call("TchRegistryGetControllerSettings", reg))
        c4 == Append(c3, Call("TchStartDevice", start))
    IN  IF ~NT_SUCCESS(scan.status)
        THEN [status |-> scan.status, calls |-> <<>>, ctx |-> scanned]
        ELSE IF ~NT_SUCCESS(spb)
        THEN [status |-> spb, calls |-> c1, ctx |-> scanned]
        ELSE IF ~NT_SUCCESS(alloc)
        THEN [status |-> alloc,
              calls |-> Append(c2, Call("SpbTargetDeinitialize", "none")),
              ctx |-> scanned]
        ELSE IF ~NT_SUCCESS(reg)
        THEN [status |-> reg, calls |-> c3, ctx |-> allocated]
        ELSE [status |-> start, calls |-> c4, ctx |-> allocated]

\* a binding that starts the device although the settings could not be loaded
PrepareHardwareSkipSettingsCheck(ctx, resources, spb, alloc, reg, start) ==
    LET scan == ScanResources(resources, 0,
                    [status |-> InitialPrepareStatus,
                     I2cResHubId |-> ctx.I2CContext.I2cResHubId])
        scanned == [ctx EXCEPT !.I2CContext.I2cResHubId = scan.I2cResHubId]
        allocated == [scanned EXCEPT !.TouchContext = TouchContextHandle]
        c1 == <<Call("SpbTargetInitialize", spb)>>
        c2 == Append(c1, Call("TchAllocateContext", alloc))
        c3 == Append(c2, Call("TchRegistryGetControllerSettings", reg))
        c4 == Append(c3, Call("TchStartDevice", start))
    IN  IF ~NT_SUCCESS(scan.status)
        THEN [status |-> scan.status, calls |-> <<>>, ctx |-> scanned]
        ELSE IF ~NT_SUCCESS(spb)
        THEN [status |-> spb, calls |-> c1, ctx |-> scanned]
        ELSE IF ~NT_SUCCESS(alloc)
        THEN [status |-> alloc, calls |-> c2, ctx |-> scanned]
        ELSE [status |-> start, calls |-> c4, ctx |-> allocated]

\* lines 313-425: OnPrepareHardware on context ctx, given the resource list and
\* the statuses its four callees will hand back
PrepareHardware(ctx, resources, spb, alloc, reg, start) ==
    LET scan == ScanResources(resources, 0,
                    [status |-> InitialPrepareStatus,
                     I2cResHubId |-> ctx.I2CContext.I2cResHubId])
        scanned == [ctx EXCEPT !.I2CContext.I2cResHubId = scan.I2cResHubId]
        allocated == [scanned EXCEPT !.TouchContext = TouchContextHandle]
        c1 == <<Call("SpbTargetInitialize", spb)>>
        c2 == Append(c1, Call("TchAllocateContext", alloc))
        c3 == Append(c2, Call("TchRegistryGetControllerSettings", reg))
        c4 == Append(c3, Call("TchStartDevice", start))
    IN  IF ~NT_SUCCESS(scan.status)
        THEN [status |-> scan.status, calls |-> <<>>, ctx |-> scanned]
        ELSE IF ~NT_SUCCESS(spb)
        THEN [status |-> spb, calls |-> c1, ctx |-> scanned]
        ELSE IF ~NT_SUCCESS(alloc)
        THEN [status |-> alloc, calls |-> c2, ctx |-> scanned]
        ELSE IF ~NT_SUCCESS(reg)
        THEN [status |-> reg, calls |-> c3, ctx |-> allocated]
        ELSE [status |-> start, calls |-> c4, ctx |-> allocated]

\* the framework prepares the hardware of a device it has not bound yet
OnPrepareHardware ==
    /\ lifecycle = "Unbound"
    /\ \E resources \in ResourceLists, spb, alloc, reg, start \in Outcomes :
          LET out == PrepareHardware(devContext, resources, spb, alloc, reg, start)
          IN  /\ devContext' = out.ctx
              /\ calls' = out.calls
              /\ lastCallback' = [name |-> "OnPrepareHardware",
                                  resources |-> resources,
                                  status |-> out.status]
              /\ hw' = Effects(hw, out.calls)
              /\ lifecycle' = IF NT_SUCCESS(out.status) THEN "Off" ELSE "PrepareFailed"
    /\ UNCHANGED <<idleIrp, isrVars>>

\* a teardown that stops at the first failure
ReleaseHardwareFailFast(ctx, stop, free) ==
    LET c1 == <<Call("TchStopDevice", stop)>>
        c2 == Append(c1, Call("TchFreeContext", free))
        c3 == Append(c2, Call("SpbTargetDeinitialize", "none"))
    IN  IF ~NT_SUCCESS(stop) THEN [status |-> stop, calls |-> c1]
        ELSE IF ~NT_SUCCESS(free) THEN [status |-> free, calls |-> c2]
        ELSE [status |-> free, calls |-> c3]

\* a teardown that reports the first failure it met
ReleaseHardwareKeepStopFailure(ctx, stop, free) ==
    LET c1 == <<Call("TchStopDevice", stop)>>
        c2 == Append(c1, Call("TchFreeContext", free))
        c3 == Append(c2, Call("SpbTargetDeinitialize", "none"))
    IN  [status |-> IF ~NT_SUCCESS(stop) THEN stop ELSE free, calls |-> c3]

\* lines 452-484: OnReleaseHardware, given the statuses of TchStopDevice and
\* TchFreeContext
ReleaseHardware(ctx, stop, free) ==
    LET c1 == <<Call("TchStopDevice", stop)>>
        c2 == Append(c1, Call("TchFreeContext", free))
        c3 == Append(c2, Call("SpbTargetDeinitialize", "none"))
    IN  [status |-> free, calls |-> c3]

\* the framework releases the hardware, after a failed or a finished binding
OnReleaseHardware ==
    /\ lifecycle \in {"Off", "PrepareFailed"}
    /\ \E stop, free \in Outcomes :
          LET out == ReleaseHardware(devContext, stop, free)
          IN  /\ calls' = out.calls
              /\ hw' = Effects(hw, out.calls)
              /\ lastCallback' = [name |-> "OnReleaseHardware",
                                  resources |-> <<>>,
                                  status |-> out.status]
    /\ lifecycle' = "Unbound"
    /\ UNCHANGED <<devContext, idleIrp, isrVars>>

\* TchCompleteIdleIrp: a request held for the idle / wake handshake is completed
CompleteIdleIrp(irp) == IF irp = "held" THEN "completed" ELSE irp

\* a power-up that gives up when the wake fails
D0EntryFailFast(ctx, irp, wake) ==
    IF ~NT_SUCCESS(wake)
    THEN [status |-> wake, calls |-> <<Call("TchWakeDevice", wake)>>,
          ctx |-> ctx, idleIrp |-> irp]
    ELSE [status |-> wake,
          calls |-> <<Call("TchWakeDevice", wake), Call("TchCompleteIdleIrp", "none")>>,
          ctx |-> [ctx EXCEPT !.ServiceInterruptsAfterD0Entry = TRUE],
          idleIrp |-> CompleteIdleIrp(irp)]

\* lines 206-237: OnD0Entry, given the status of TchWakeDevice
D0Entry(ctx, irp, wake) ==
    [status |-> wake,
     calls |-> <<Call("TchWakeDevice", wake), Call("TchCompleteIdleIrp", "none")>>,
     ctx |-> [ctx EXCEPT !.ServiceInterruptsAfterD0Entry = TRUE],
     idleIrp |-> CompleteIdleIrp(irp)]

\* the framework powers the bound device up
OnD0Entry ==
    /\ lifecycle = "Off"
    /\ \E wake \in Outcomes :
          LET out == D0Entry(devContext, idleIrp, wake)
          IN  /\ devContext' = out.ctx
              /\ idleIrp' = out.idleIrp
              /\ calls' = out.calls
              /\ lastCallback' = [name |-> "OnD0Entry", resources |-> <<>>,
                                  status |-> out.status]
    /\ lifecycle' = "D0"
    /\ UNCHANGED <<hw, isrVars>>

\* a power-down that hides a failed standby from the framework
D0ExitSwallowsFailure(ctx, standby) ==
    [status |-> STATUS_SUCCESS, calls |-> <<Call("TchStandbyDevice", standby)>>]

\* lines 262-283: OnD0Exit, given the status of TchStandbyDevice
D0Exit(ctx, standby) ==
    [status |-> standby, calls |-> <<Call("TchStandbyDevice", standby)>>]

\* the framework powers the device down
OnD0Exit ==
    /\ lifecycle = "D0"
    /\ \E standby \in Outcomes :
          LET out == D0Exit(devContext, standby)
          IN  /\ calls' = out.calls
              /\ lastCallback' = [name |-> "OnD0Exit", resources |-> <<>>,
                                  status |-> out.status]
    /\ lifecycle' = "Off"
    /\ UNCHANGED <<devContext, idleIrp, hw, isrVars>>

\* HIDClass sends an idle notification request down; the driver holds it
HoldIdleIrp ==
    /\ lifecycle \in {"Off", "D0"}
    /\ idleIrp # "held"
    /\ idleIrp' = "held"
    /\ UNCHANGED <<devContext, lifecycle, lastCallback, calls, hw, isrVars>>

NextLifecycle ==
    \/ OnPrepareHardware
    \/ OnReleaseHardware
    \/ OnD0Entry
    \/ OnD0Exit
    \/ HoldIdleIrp

SpecLifecycle == Init /\ [][NextLifecycle]_vars

(* ---------------- properties of the PnP and power callbacks ------------ *)

Ops == [k \in 1 .. Len(calls) |-> calls[k].op]

\* C8: OnReleaseHardware calls stop-device, free-context and
\* deinitialize-transport, each once and in that order, whatever statuses
\* stop-device and free-context hand back.
C8_UnbindRunsEveryStep ==
    lastCallback.name = "OnReleaseHardware" =>
        Ops = <<"TchStopDevice", "TchFreeContext", "SpbTargetDeinitialize">>

\* a teardown in which stop-device and free-context both failed
C8_Witness ==
    /\ lastCallback.name = "OnReleaseHardware"
    /\ Len(calls) = 3
    /\ ~NT_SUCCESS(calls[1].status)
    /\ ~NT_SUCCESS(calls[2].status)
    /\ calls[3].op = "SpbTargetDeinitialize"

\* the list holds a connection descriptor of the serial class and I2C type
HasI2cDescriptor(list) ==
    \E k \in 1 .. Len(list) :
        /\ list[k].Type = CmResourceTypeConnection
        /\ list[k].Class = CM_RESOURCE_CONNECTION_CLASS_SERIAL
        /\ list[k].ConnType = CM_RESOURCE_CONNECTION_TYPE_SERIAL_I2C

\* C9: OnPrepareHardware given a resource list without an I2C connection
\* descriptor (the empty list included) returns STATUS_INSUFFICIENT_RESOURCES
\* and calls none of transport initialization, context allocation, settings
\* load and device start.
C9_NoDescriptorNoCalls ==
    (lastCallback.name = "OnPrepareHardware" /\ ~HasI2cDescriptor(lastCallback.resources))
        => /\ lastCallback.status = STATUS_INSUFFICIENT_RESOURCES
           /\ calls = <<>>

\* a binding attempt whose list held descriptors, none of them the I2C connection
C9_Witness ==
    /\ lastCallback.name = "OnPrepareHardware"
    /\ Len(lastCallback.resources) = MaxResources
    /\ ~HasI2cDescriptor(lastCallback.resources)
    /\ lastCallback.status = STATUS_INSUFFICIENT_RESOURCES

\* C10: every OnD0Entry call leaves ServiceInterruptsAfterD0Entry TRUE whether
\* the wake succeeded or not, has TchCompleteIdleIrp complete the held idle
\* request either way, and returns the status TchWakeDevice handed back.
C10_D0EntryAlwaysSetsFlag ==
    [][(lifecycle = "Off" /\ lifecycle' = "D0") =>
          /\ lastCallback'.name = "OnD0Entry"
          /\ devContext'.ServiceInterruptsAfterD0Entry = TRUE
          /\ Len(calls') = 2
          /\ calls'[1].op = "TchWakeDevice"
          /\ calls'[2].op = "TchCompleteIdleIrp"
          /\ lastCallback'.status = calls'[1].status
          /\ idleIrp' = CompleteIdleIrp(idleIrp)
          /\ idleIrp' # "held"]_vars

\* a power-up whose wake failed, with an idle request that had been held
C10_Witness ==
    /\ lastCallback.name = "OnD0Entry"
    /\ ~NT_SUCCESS(lastCallback.status)
    /\ devContext.ServiceInterruptsAfterD0Entry = TRUE
    /\ idleIrp = "completed"

(* ------------------- requests that arrive during a pass ---------------- *)

\* invocation p handed request r a report in the pass it is in, or was last in
ServedInPass(p, r) == \E k \in 1 .. Len(isr[p].log) : isr[p].log[k].request = r

\* C14 as stated: a request that arrived after the pass had found the queue
\* empty for one of its reports gets no report from that pass
C14_AsStated ==
    \A p \in Invocations : \A l \in isr[p].late : ~ServedInPass(p, l.request)

\* C14: a request that arrived after the pass had found the queue empty for a
\* report never gets that report or an earlier one; the pass dequeues again for
\* each report still to come, so the request is handed a later report of the
\* same pass if there is one, and otherwise stays queued.
C14_LateArrivalGetsOnlyLaterReports ==
    \A p \in Invocations : \A l \in isr[p].late :
        /\ \A k \in 1 .. Len(isr[p].log) :
              isr[p].log[k].request = l.request => isr[p].log[k].report > l.after
        /\ (~ServedInPass(p, l.request) /\ isr[p].request # l.request)
              => InQueue(l.request)

\* a request that arrived after the first report was dropped and holds the second
C14_Witness ==
    \E l \in isr[1].late :
        /\ Returned(1)
        /\ ServedInPass(1, l.request)
        /\ HoldsReport(l.request, l.after + 1)

(* ---------------------- binding and its failures ----------------------- *)

BothValid == hw.transport = "initialized" /\ hw.touch = "started"
BothAbsent == hw.transport = "absent" /\ hw.touch = "absent"

\* the transport is initialized while the touch context is absent or only partly set up
PartlyBound == hw.transport = "initialized" /\ hw.touch # "started"

\* C12 as stated: wherever the device is after a binding attempt, the transport
\* and the touch context are both valid or both absent, and a failed
\* OnPrepareHardware leaves no state with the transport initialized and the
\* touch context absent or partly set up
C12_AsStated ==
    lifecycle # "Unbound" => /\ BothValid \/ BothAbsent
                             /\ ~PartlyBound

\* C12: between an OnPrepareHardware that succeeded and OnReleaseHardware the
\* transport is initialized, the touch context is allocated and started and
\* devContext.TouchContext is set; after an OnPrepareHardware that failed the
\* transport is initialized exactly when SpbTargetInitialize succeeded, and a
\* failure of the settings load or the device start leaves it initialized with
\* the touch context allocated but not started, until OnReleaseHardware runs.
C12_BoundMeansBothValid ==
    /\ lifecycle \in {"Off", "D0"} => /\ BothValid
                                      /\ devContext.TouchContext # NULL
    /\ lifecycle = "PrepareFailed" =>
          /\ (hw.transport = "initialized") <=>
                 (calls # <<>> /\ NT_SUCCESS(calls[1].status))
          /\ Len(calls) > 2 => PartlyBound

\* a device bound and powered up
C12_Witness ==
    /\ lifecycle = "D0"
    /\ BothValid
    /\ devContext.TouchContext = TouchContextHandle

\* the call of OnPrepareHardware in which TchAllocateContext failed
FailedAllocation(k) ==
    /\ lastCallback.name = "OnPrepareHardware"
    /\ k \in 1 .. Len(calls)
    /\ calls[k].op = "TchAllocateContext"
    /\ ~NT_SUCCESS(calls[k].status)

\* C13 as stated: when TchAllocateContext fails, OnPrepareHardware
\* deinitializes the transport before it returns the failure
C13_AsStated ==
    \A k \in 1 .. MaxResources + 4 :
        FailedAllocation(k) =>
            /\ \E j \in k + 1 .. Len(calls) : calls[j].op = "SpbTargetDeinitialize"
            /\ hw.transport = "absent"

\* C13: when TchAllocateContext fails, OnPrepareHardware returns that status
\* with TchAllocateContext as its last call: it does not call
\* SpbTargetDeinitialize, and the transport stays initialized until
\* OnReleaseHardware runs.
C13_AllocationFailureNotUnwound ==
    \A k \in 1 .. MaxResources + 4 :
        FailedAllocation(k) =>
            /\ k = Len(calls)
            /\ Ops = <<"SpbTargetInitialize", "TchAllocateContext">>
            /\ lastCallback.status = calls[k].status
            /\ hw.transport = "initialized"
            /\ lifecycle = "PrepareFailed"

\* a binding that failed with the allocation's status
C13_Witness ==
    /\ FailedAllocation(Len(calls))
    /\ lastCallback.status = STATUS_UNSUCCESSFUL
    /\ hw.transport = "initialized"

\* the four steps of a binding, in order
BindSteps ==
    <<"SpbTargetInitialize", "TchAllocateContext",
      "TchRegistryGetControllerSettings", "TchStartDevice">>

\* C17: given an I2C descriptor, OnPrepareHardware calls transport
\* initialization, context allocation, settings load and device start in that
\* order, each only after every earlier one succeeded; the first failing step
\* is the last call and its status is returned as it is, with no cleanup call;
\* STATUS_SUCCESS is returned exactly when all four succeeded.
C17_BindStopsAtFirstFailure ==
    (lastCallback.name = "OnPrepareHardware" /\ HasI2cDescriptor(lastCallback.resources))
        => LET n == Len(calls)
           IN  /\ n \in 1 .. Len(BindSteps)
               /\ Ops = SubSeq(BindSteps, 1, n)
               /\ \A k \in 1 .. n - 1 : NT_SUCCESS(calls[k].status)
               /\ lastCallback.status = calls[n].status
               /\ n < Len(BindSteps) => ~NT_SUCCESS(calls[n].status)
               /\ NT_SUCCESS(lastCallback.status) <=>
                      (n = Len(BindSteps) /\ \A k \in 1 .. n : NT_SUCCESS(calls[k].status))

\* a binding that stopped at the settings load and returned its status
C17_Witness ==
    /\ lastCallback.name = "OnPrepareHardware"
    /\ Ops = SubSeq(BindSteps, 1, 3)
    /\ lastCallback.status = STATUS_INSUFFICIENT_RESOURCES
    /\ calls[3].status = STATUS_INSUFFICIENT_RESOURCES

\* the descriptor the scan of lines 329-344 meets last among the I2C connections
LastI2cDescriptor(list) ==
    list[CHOOSE k \in 1 .. Len(list) :
            /\ IsI2cConnection(list[k])
            /\ \A j \in k + 1 .. Len(list) : ~IsI2cConnection(list[j])]

\* C18: OnPrepareHardware given one or more I2C connection descriptors goes on
\* to SpbTargetInitialize with I2cResHubId holding the low and high parts of
\* the last of them in list order, and returns what its steps return, never an
\* error of its own for the extra descriptors; a list without such a descriptor
\* leaves I2cResHubId as it was.
C18_LastDescriptorWins ==
    [][(lifecycle = "Unbound" /\ lifecycle' # "Unbound") =>
          LET list == lastCallback'.resources
              id == devContext'.I2CContext.I2cResHubId
          IN  IF HasI2cDescriptor(list)
              THEN /\ calls' # <<>>
                   /\ calls'[1].op = "SpbTargetInitialize"
                   /\ lastCallback'.status = calls'[Len(calls')].status
                   /\ id.LowPart = LastI2cDescriptor(list).IdLowPart
                   /\ id.HighPart = LastI2cDescriptor(list).IdHighPart
              ELSE id = devContext.I2CContext.I2cResHubId]_vars

\* a binding given two I2C connections with different ids, the second one kept
C18_Witness ==
    LET list == lastCallback.resources
    IN  /\ lastCallback.name = "OnPrepareHardware"
        /\ Len(list) >= 2
        /\ IsI2cConnection(list[1])
        /\ IsI2cConnection(list[2])
        /\ list[1].IdLowPart # list[2].IdLowPart
        /\ NT_SUCCESS(lastCallback.status)
        /\ devContext.I2CContext.I2cResHubId.LowPart = LastI2cDescriptor(list).IdLowPart

\* the callback before this one got what routine op hands out
Acquired(op) ==
    \E k \in 1 .. Len(calls) : calls[k].op = op /\ NT_SUCCESS(calls[k].status)

\* the number of calls of routine op in the callback that ends this step
TimesCalled(op) == Cardinality({k \in 1 .. Len(calls') : calls'[k].op = op})

\* C19 as stated: in the OnReleaseHardware that follows a failed
\* OnPrepareHardware, TchStopDevice and TchFreeContext are called only if
\* TchAllocateContext had succeeded and SpbTargetDeinitialize only if
\* SpbTargetInitialize had succeeded, and what was acquired is released once
C19_TeardownOnlyOfAcquired ==
    [][(lifecycle = "PrepareFailed" /\ lifecycle' = "Unbound") =>
          /\ TimesCalled("TchStopDevice") > 0 => Acquired("TchAllocateContext")
          /\ TimesCalled("TchFreeContext") > 0 => Acquired("TchAllocateContext")
          /\ TimesCalled("SpbTargetDeinitialize") > 0 => Acquired("SpbTargetInitialize")
          /\ Acquired("TchAllocateContext") => TimesCalled("TchFreeContext") = 1
          /\ Acquired("SpbTargetInitialize") => TimesCalled("SpbTargetDeinitialize") = 1]_vars

\* C20: OnReleaseHardware returns the status of TchFreeContext, whatever
\* TchStopDevice returned before it and although SpbTargetDeinitialize runs
\* after it.
C20_UnbindReturnsFreeStatus ==
    lastCallback.name = "OnReleaseHardware" =>
        \E k \in 1 .. Len(calls) :
            /\ calls[k].op = "TchFreeContext"
            /\ lastCallback.status = calls[k].status
            /\ \A j \in 1 .. Len(calls) : j # k => calls[j].op # "TchFreeContext"

\* a teardown whose stop failed, whose free succeeded, and which reported success
C20_Witness ==
    /\ lastCallback.name = "OnReleaseHardware"
    /\ Len(calls) = 3
    /\ calls[1].op = "TchStopDevice"
    /\ ~NT_SUCCESS(calls[1].status)
    /\ calls[2].op = "TchFreeContext"
    /\ NT_SUCCESS(calls[2].status)
    /\ calls[3].op = "SpbTargetDeinitialize"
    /\ lastCallback.status = STATUS_SUCCESS

\* the step is a call of OnD0Entry, or of OnD0Exit
EnterD0Step == calls' # calls /\ calls' # <<>> /\ calls'[1].op = "TchWakeDevice"
ExitD0Step == calls' # calls /\ calls' # <<>> /\ calls'[1].op = "TchStandbyDevice"

\* C16: every OnD0Entry leaves the device in D0 and every OnD0Exit leaves it
\* Off, whatever TchWakeDevice or TchStandbyDevice returned; OnD0Exit calls
\* TchStandbyDevice once, calls nothing else and returns its status; OnD0Entry
\* does not call TchStandbyDevice to undo a failed wake.
C16_TransitionsUnconditional ==
    [][/\ EnterD0Step => /\ lifecycle' = "D0"
                         /\ lastCallback'.name = "OnD0Entry"
                         /\ \A k \in 1 .. Len(calls') : calls'[k].op # "TchStandbyDevice"
       /\ ExitD0Step => /\ lifecycle' = "Off"
                        /\ lastCallback'.name = "OnD0Exit"
                        /\ Len(calls') = 1
                        /\ lastCallback'.status = calls'[1].status]_vars

\* a power-down whose standby failed: the device is Off and the failure was returned
C16_Witness ==
    /\ lastCallback.name = "OnD0Exit"
    /\ lifecycle = "Off"
    /\ Len(calls) = 1
    /\ calls[1].op = "TchStandbyDevice"
    /\ calls[1].status = STATUS_UNSUCCESSFUL
    /\ lastCallback.status = STATUS_UNSUCCESSFUL

(* ------------------ interrupts across power transitions ---------------- *)

\* the device binds without a failure, to one descriptor
BindForPower ==
    /\ OnPrepareHardware
    /\ NT_SUCCESS(lastCallback'.status)
    /\ Len(lastCallback'.resources) = 1

\* once the device is bound it powers up and down, and read requests and
\* interrupts arrive at any moment: nothing in OnInterruptIsr, OnD0Entry or
\* OnD0Exit waits for another callback
NextPower ==
    \/ BindForPower
    \/ OnD0Entry
    \/ OnD0Exit
    \/ InsertRequest /\ lifecycle # "Unbound"
    \/ OnInterruptIsr(1) /\ lifecycle # "Unbound"

SpecPower == Init /\ [][NextPower]_vars

\* the step on which invocation p comes back from a pass whose reports it worked off
CompletesPass(p) == isr[p].pc = "loop" /\ isr'[p].pc = "returned"

\* C11 as stated: a service pass that began with ServiceInterruptsAfterD0Entry
\* set by OnD0Entry leaves the flag FALSE when it completes
C11_PassClearsWakeFlag ==
    [][\A p \in Invocations :
          (CompletesPass(p) /\ isr[p].wakePending)
              => devContext'.ServiceInterruptsAfterD0Entry = FALSE]_vars

\* C15 as stated: TchServiceInterrupts is never called by OnInterruptIsr between
\* an OnD0Exit and the next OnD0Entry
C15_NoServiceWhileOff ==
    \A p \in Invocations :
        isr[p].serviced => isr[p].servicedAfter # "OnD0Exit"
====
